---- MODULE Spec2Model ----
(***************************************************************************)
(* libcpp-util: the array-backed sorted_vector (src/ADT/sorted_vector.h)   *)
(* and the counting semaphore (src/smp/semaphore.h).                       *)
(*                                                                         *)
(* Positions are 1-based indices into the storage sequence; begin() is 1   *)
(* and end() is Len(storage) + 1.  A Key is a pair <<k, t>>: the           *)
(* comparator inspects only k, t is data the comparator does not inspect.  *)
(***************************************************************************)
EXTENDS Integers, Sequences, FiniteSets, TLC

VARIABLES storage, comp, last, other_storage, other_comp,
          input, todo, bulk_done,
          sem_count, sem_waiters, s, pc

\* `this` sorted_vector, a second one, and the call that has just run
vecVars == <<storage, comp, last, other_storage, other_comp>>
\* the list a bulk load is compared on
bulkVars == <<input, todo, bulk_done>>
\* the semaphore and the threads that use it
semVars == <<sem_count, sem_waiters, s, pc>>

vars == <<vecVars, bulkVars, semVars>>

(* ---------------------------- bounds ---------------------------------- *)

\* keys the comparator distinguishes: 1..MaxKey
MaxKey == 3
\* longest range / initializer list handed to a constructor, assignment or
\* bulk insert
MaxLen == 2
\* a storage without equivalent elements holds at most MaxKey elements; a run
\* is followed as long as the storage holds at most one element more
MaxSize == MaxKey + 1

KeyIds == 1..MaxKey
Tags == {"a", "b"}
Values == KeyIds \X Tags
Compares == {"less", "greater"}

RECURSIVE SeqsUpTo(_, _)
SeqsUpTo(S, n) ==
  IF n = 0 THEN {<<>>}
  ELSE LET shorter == SeqsUpTo(S, n - 1)
       IN  shorter \cup {Append(q, x) : q \in {r \in shorter : Len(r) = n - 1}, x \in S}

Lists == SeqsUpTo(Values, MaxLen)

(* ------------------------- the comparator ----------------------------- *)

\* comp(a, b): a strict weak order on the projection k of the Key
Compare(c, a, b) == IF c = "less" THEN a[1] < b[1] ELSE a[1] > b[1]

equivalent(c, k1, k2) == ~Compare(c, k1, k2) /\ ~Compare(c, k2, k1)

greater(c, k1, k2) == Compare(c, k2, k1)

(* ------------------------- std::vector -------------------------------- *)

end(st) == Len(st) + 1

empty(st) == Len(st) = 0

\* storage.insert(pos, value)
VecInsert(st, pos, v) == SubSeq(st, 1, pos - 1) \o <<v>> \o SubSeq(st, pos, Len(st))

\* storage.erase(first, last): removes [first, last)
VecErase(st, first, lst) == SubSeq(st, 1, first - 1) \o SubSeq(st, lst, Len(st))

(* ------------------------- binary searches ---------------------------- *)

RECURSIVE LowerSearch(_, _, _, _, _)
LowerSearch(st, c, key, first, len) ==
  IF len = 0 THEN first
  ELSE LET half == len \div 2
           mid == first + half
       IN  IF Compare(c, st[mid], key)
           THEN LowerSearch(st, c, key, mid + 1, len - half - 1)
           ELSE LowerSearch(st, c, key, first, half)

RECURSIVE UpperSearch(_, _, _, _, _)
UpperSearch(st, c, key, first, len) ==
  IF len = 0 THEN first
  ELSE LET half == len \div 2
           mid == first + half
       IN  IF Compare(c, key, st[mid])
           THEN UpperSearch(st, c, key, first, half)
           ELSE UpperSearch(st, c, key, mid + 1, len - half - 1)

RECURSIVE EqualSearch(_, _, _, _, _)
EqualSearch(st, c, key, first, len) ==
  IF len = 0 THEN <<first, first>>
  ELSE LET half == len \div 2
           mid == first + half
       IN  IF Compare(c, st[mid], key)
           THEN EqualSearch(st, c, key, mid + 1, len - half - 1)
           ELSE IF Compare(c, key, st[mid])
           THEN EqualSearch(st, c, key, first, half)
           ELSE <<LowerSearch(st, c, key, first, half),
                  UpperSearch(st, c, key, mid + 1, first + len - (mid + 1))>>

lower_bound(st, c, key) == LowerSearch(st, c, key, 1, Len(st))

\* upper_bound that stops at the first element not ordered before key
upper_bound_notbefore(st, c, key) == LowerSearch(st, c, key, 1, Len(st))

upper_bound(st, c, key) == UpperSearch(st, c, key, 1, Len(st))

equal_range(st, c, key) == EqualSearch(st, c, key, 1, Len(st))

count(st, c, key) == LET result == equal_range(st, c, key) IN result[2] - result[1]

find(st, c, key) ==
  LET I == lower_bound(st, c, key)
  IN  IF I = end(st) \/ Compare(c, key, st[I]) THEN I ELSE end(st)

(* ------------------------- validate ----------------------------------- *)

is_sorted(st, c) == \A i \in 1..(Len(st) - 1) : ~Compare(c, st[i + 1], st[i])

adjacent_unique(st, c) == \A i \in 1..(Len(st) - 1) : ~equivalent(c, st[i], st[i + 1])

validate(st, c) == is_sorted(st, c) /\ adjacent_unique(st, c)

(* ------------------------- sort_unique -------------------------------- *)

\* std::sort is not stable: any arrangement of the input that is ordered
\* under the comparator is a possible outcome.
RECURSIVE Orders(_)
Orders(S) ==
  IF S = {} THEN {<<>>}
  ELSE UNION {{<<i>> \o f : f \in Orders(S \ {i})} : i \in S}

\* sort that leaves the range as it found it
sort_asis(st, c) == {st}

sort(st, c) ==
  LET n == Len(st)
  IN  {p \in {[i \in 1..n |-> st[f[i]]] : f \in Orders(1..n)} : is_sorted(p, c)}

\* std::unique with the predicate `equivalent`: keeps the first element of
\* every run of consecutive equivalent elements.
RECURSIVE UniqueFrom(_, _, _)
UniqueFrom(acc, rest, c) ==
  IF rest = <<>> THEN acc
  ELSE IF acc # <<>> /\ equivalent(c, acc[Len(acc)], Head(rest))
       THEN UniqueFrom(acc, Tail(rest), c)
       ELSE UniqueFrom(Append(acc, Head(rest)), Tail(rest), c)

\* unique that collapses nothing
unique_keepall(st, c) == st

unique(st, c) == UniqueFrom(<<>>, st, c)

\* the set of storages sort_unique(begin(), end()) can leave
sort_unique(st, c) == {unique(p, c) : p \in sort(st, c)}

(* ------------------------- mutators ----------------------------------- *)

\* good_hint that checks only the element to the left of the hint
good_hint_leftonly(st, c, hint, k) ==
  IF hint # 1 /\ ~greater(c, k, st[hint - 1]) THEN FALSE
  ELSE TRUE

\* good_hint that accepts a value equivalent to the element left of the hint
good_hint_allowequal(st, c, hint, k) ==
  IF hint # 1 /\ Compare(c, k, st[hint - 1]) THEN FALSE
  ELSE IF hint # end(st) /\ ~Compare(c, k, st[hint]) THEN FALSE
  ELSE TRUE

good_hint(st, c, hint, k) ==
  IF hint # 1 /\ ~greater(c, k, st[hint - 1]) THEN FALSE
  ELSE IF hint # end(st) /\ ~Compare(c, k, st[hint]) THEN FALSE
  ELSE TRUE

\* insert that skips the duplicate check
insert_nocheck(st, c, value) ==
  LET I == lower_bound(st, c, value)
  IN  [storage |-> VecInsert(st, I, value), first |-> I, second |-> TRUE]

\* insert that overwrites the stored equivalent element with the new value
insert_overwrite(st, c, value) ==
  LET I == lower_bound(st, c, value)
  IN  IF I # end(st) /\ equivalent(c, st[I], value)
      THEN [storage |-> [st EXCEPT ![I] = value], first |-> I, second |-> FALSE]
      ELSE [storage |-> VecInsert(st, I, value), first |-> I, second |-> TRUE]

\* insert that appends a new value instead of placing it at its position
insert_append(st, c, value) ==
  LET I == lower_bound(st, c, value)
  IN  IF I # end(st) /\ equivalent(c, st[I], value)
      THEN [storage |-> st, first |-> I, second |-> FALSE]
      ELSE [storage |-> Append(st, value), first |-> end(st), second |-> TRUE]

\* insert(const value_type&) and insert(value_type&&)
insert(st, c, value) ==
  LET I == lower_bound(st, c, value)
  IN  IF I # end(st) /\ equivalent(c, st[I], value)
      THEN [storage |-> st, first |-> I, second |-> FALSE]
      ELSE [storage |-> VecInsert(st, I, value), first |-> I, second |-> TRUE]

\* insert(const_iterator hint, value): the storage it leaves
insert_hint(st, c, hint, value) ==
  IF good_hint(st, c, hint, value)
  THEN VecInsert(st, hint, value)
  ELSE insert(st, c, value).storage

\* emplace(args...): tmp is the value value_type tmp(args...) builds and the
\* binary search uses; arg is the value storage.emplace(I, args...) builds
\* in place from the same arguments, forwarded a second time
emplace(st, c, tmp, arg) ==
  LET I == lower_bound(st, c, tmp)
  IN  IF I = end(st)
      THEN [storage |-> VecInsert(st, I, arg), first |-> I, second |-> TRUE]
      ELSE IF equivalent(c, st[I], tmp)
      THEN [storage |-> st, first |-> I, second |-> FALSE]
      ELSE [storage |-> VecInsert(st, I, arg), first |-> I, second |-> TRUE]

RECURSIVE InsertEach(_, _, _)
InsertEach(st, c, lst) ==
  IF lst = <<>> THEN st
  ELSE InsertEach(insert(st, c, Head(lst)).storage, c, Tail(lst))

\* insert(InputIt first, InputIt last): the set of storages it can leave
insert_range(st, c, lst) ==
  IF empty(st)
  THEN sort_unique(VecErase(st, 1, 1) \o lst, c)
  ELSE {InsertEach(st, c, lst)}

\* erase(key) that reports one erased element also when it found none
erase_key_reportsone(st, c, key) ==
  LET I == find(st, c, key)
  IN  IF I # end(st)
      THEN [storage |-> VecErase(st, I, I + 1), n |-> 1]
      ELSE [storage |-> st, n |-> 1]

\* erase(const key_type&)
erase_key(st, c, key) ==
  LET I == find(st, c, key)
  IN  IF I # end(st)
      THEN [storage |-> VecErase(st, I, I + 1), n |-> 1]
      ELSE [storage |-> st, n |-> 0]

(* ------------------------- call records ------------------------------- *)

NoValue == <<0, "a">>

\* the call that has just run on the container: its arguments, the storage
\* it found and what it returned (pos 0: no position returned)
Call(op, value, hint, lst, pre, pos, second, n) ==
  [op |-> op, value |-> value, hint |-> hint, lst |-> lst, pre |-> pre,
   pos |-> pos, second |-> second, n |-> n]

\* no call in progress: the caller is free to make the next one
Idle == Call("idle", NoValue, 0, <<>>, <<>>, 0, FALSE, 0)

(* ------------------------- one container ------------------------------ *)

\* the variables of the other components, where a specification leaves them out
BulkUnused == input = <<>> /\ todo = {} /\ bulk_done = FALSE

SemUnused == sem_count = 0 /\ sem_waiters = 0 /\ s = 0 /\ pc = <<>>

\* a container built by a constructor from a range or an initializer list
\* (the empty list: the default constructor)
Init ==
  /\ comp \in Compares
  /\ \E lst \in Lists :
       /\ storage \in sort_unique(lst, comp)
       /\ last = Call("ctor", NoValue, 0, lst, <<>>, 0, FALSE, 0)
  /\ other_storage = <<>>
  /\ other_comp = "less"
  /\ BulkUnused
  /\ SemUnused

Insert(v) ==
  LET r == insert(storage, comp, v)
  IN  /\ last = Idle
      /\ Len(r.storage) <= MaxSize
      /\ storage' = r.storage
      /\ last' = Call("insert", v, 0, <<>>, storage, r.first, r.second, 0)
      /\ UNCHANGED <<comp, other_storage, other_comp, bulkVars, semVars>>

\* insert(hint, value) has no return statement: the iterator the caller
\* receives is indeterminate
InsertHint(h, v) ==
  /\ last = Idle
  /\ h \in 1..end(storage)
  /\ Len(insert_hint(storage, comp, h, v)) <= MaxSize
  /\ storage' = insert_hint(storage, comp, h, v)
  /\ \E p \in 1..end(storage') :
       last' = Call("insert_hint", v, h, <<>>, storage, p, FALSE, 0)
  /\ UNCHANGED <<comp, other_storage, other_comp, bulkVars, semVars>>

\* std::forward<Args>(args)... is expanded twice.  Arguments passed as
\* lvalues are copied both times and build the same value twice.  Arguments
\* passed as rvalues are moved from by the construction of tmp; the second
\* construction then reads them in their valid but unspecified moved-from
\* state and can build any value (the same one when moving is copying).
SecondConstruction(v, rvalue) == IF rvalue THEN Values ELSE {v}

EmplaceCall(op, value, hint, pre, pos, second, rvalue) ==
  [op |-> op, value |-> value, hint |-> hint, pre |-> pre, pos |-> pos,
   second |-> second, rvalue |-> rvalue]

\* emplace returns the iterator I it held before storage.emplace, which the
\* insertion invalidates: after an insertion the position is indeterminate
Emplace(v, rvalue) ==
  /\ last = Idle
  /\ \E w \in SecondConstruction(v, rvalue) :
       LET r == emplace(storage, comp, v, w)
       IN  /\ Len(r.storage) <= MaxSize
           /\ storage' = r.storage
           /\ \E p \in (IF r.second THEN 1..end(r.storage) ELSE {r.first}) :
                last' = EmplaceCall("emplace", v, 0, storage, p, r.second,
                                    rvalue)
  /\ UNCHANGED <<comp, other_storage, other_comp, bulkVars, semVars>>

EmplaceHint(h, v, rvalue) ==
  /\ last = Idle
  /\ h \in 1..end(storage)
  /\ \E w \in SecondConstruction(v, rvalue) :
       LET r == emplace(storage, comp, v, w)
       IN  /\ Len(r.storage) <= MaxSize
           /\ storage' = r.storage
           /\ \E p \in (IF r.second THEN 1..end(r.storage) ELSE {r.first}) :
                last' = EmplaceCall("emplace_hint", v, h, storage, p, FALSE,
                                    rvalue)
  /\ UNCHANGED <<comp, other_storage, other_comp, bulkVars, semVars>>

InsertRange(lst) ==
  /\ last = Idle
  /\ storage' \in insert_range(storage, comp, lst)
  /\ Len(storage') <= MaxSize
  /\ last' = Call("insert_range", NoValue, 0, lst, storage, 0, FALSE, 0)
  /\ UNCHANGED <<comp, other_storage, other_comp, bulkVars, semVars>>

\* operator=(initializer_list): assign, then sort_unique
AssignList(lst) ==
  /\ last = Idle
  /\ storage' \in sort_unique(lst, comp)
  /\ last' = Call("assign", NoValue, 0, lst, storage, 0, FALSE, 0)
  /\ UNCHANGED <<comp, other_storage, other_comp, bulkVars, semVars>>

\* erase(const_iterator pos): pos is dereferenceable
ErasePos(p) ==
  /\ last = Idle
  /\ p \in 1..Len(storage)
  /\ storage' = VecErase(storage, p, p + 1)
  /\ last' = Call("erase_pos", NoValue, p, <<>>, storage, p, FALSE, 0)
  /\ UNCHANGED <<comp, other_storage, other_comp, bulkVars, semVars>>

\* erase(first, last): [first, last) is a valid range
EraseRange(f, l) ==
  /\ last = Idle
  /\ f \in 1..end(storage)
  /\ l \in f..end(storage)
  /\ storage' = VecErase(storage, f, l)
  /\ last' = Call("erase_range", NoValue, f, <<>>, storage, f, FALSE, l)
  /\ UNCHANGED <<comp, other_storage, other_comp, bulkVars, semVars>>

EraseKey(k) ==
  LET r == erase_key(storage, comp, k)
  IN  /\ last = Idle
      /\ storage' = r.storage
      /\ last' = Call("erase_key", k, 0, <<>>, storage, 0, FALSE, r.n)
      /\ UNCHANGED <<comp, other_storage, other_comp, bulkVars, semVars>>

Clear ==
  /\ last = Idle
  /\ storage' = <<>>
  /\ last' = Call("clear", NoValue, 0, <<>>, storage, 0, FALSE, 0)
  /\ UNCHANGED <<comp, other_storage, other_comp, bulkVars, semVars>>

\* the caller has taken the result of the call; the next call can be made
Return ==
  /\ last # Idle
  /\ last' = Idle
  /\ UNCHANGED <<storage, comp, other_storage, other_comp, bulkVars, semVars>>

Positions == 1..(MaxSize + 1)

Next ==
  \/ \E v \in Values : Insert(v)
  \/ \E h \in Positions, v \in Values : InsertHint(h, v)
  \/ \E v \in Values, rvalue \in BOOLEAN : Emplace(v, rvalue)
  \/ \E h \in Positions, v \in Values, rvalue \in BOOLEAN :
       EmplaceHint(h, v, rvalue)
  \/ \E lst \in Lists : InsertRange(lst)
  \/ \E lst \in Lists : AssignList(lst)
  \/ \E p \in Positions : ErasePos(p)
  \/ \E f \in Positions, l \in Positions : EraseRange(f, l)
  \/ \E k \in Values : EraseKey(k)
  \/ Clear
  \/ Return

Spec == Init /\ [][Next]_vars

\* the sequences of calls that use neither emplace nor emplace_hint
InsertEraseNext ==
  \/ \E v \in Values : Insert(v)
  \/ \E h \in Positions, v \in Values : InsertHint(h, v)
  \/ \E lst \in Lists : InsertRange(lst)
  \/ \E lst \in Lists : AssignList(lst)
  \/ \E p \in Positions : ErasePos(p)
  \/ \E f \in Positions, l \in Positions : EraseRange(f, l)
  \/ \E k \in Values : EraseKey(k)
  \/ Clear
  \/ Return

InsertEraseSpec == Init /\ [][InsertEraseNext]_vars

(* C1: after every call in any sequence of insert, insert with hint,       *)
(* emplace, emplace_hint, bulk insert, erase(position), erase(range),      *)
(* erase(key), clear and initializer-list assignment on a freshly          *)
(* constructed container, validate() holds: the storage is sorted under    *)
(* the comparator and holds no two equivalent elements.                    *)
C1_ValidateAlways == validate(storage, comp)

\* an element equivalent to k is stored in st
Present(st, c, k) == \E i \in 1..Len(st) : equivalent(c, st[i], k)

(* C2: in every reachable state and for every key k, find(k) returns the   *)
(* position of the stored element equivalent to k exactly when             *)
(* count(k) = 1, and returns end() when no equivalent element is stored.   *)
C2_FindIffCount ==
  \A k \in Values :
    LET I == find(storage, comp, k)
    IN  IF count(storage, comp, k) = 1
        THEN I # end(storage) /\ equivalent(comp, storage[I], k)
        ELSE I = end(storage)

(* C3: when an element equivalent to k is stored, erase(k) returns 1,      *)
(* reduces the size by exactly 1, removes that element and no other, and   *)
(* afterwards k is absent (count(k) = 0 and find(k) = end()).              *)
C3_ErasePresent ==
  (last.op = "erase_key" /\ Present(last.pre, comp, last.value)) =>
    /\ last.n = 1
    /\ Len(storage) = Len(last.pre) - 1
    /\ \E i \in 1..Len(last.pre) :
         /\ equivalent(comp, last.pre[i], last.value)
         /\ storage = VecErase(last.pre, i, i + 1)
    /\ count(storage, comp, last.value) = 0
    /\ find(storage, comp, last.value) = end(storage)

(* C4: when no element equivalent to k is stored (also when some stored    *)
(* element orders after k), erase(k) returns 0 and leaves the size and the *)
(* stored sequence unchanged.                                              *)
C4_EraseAbsent ==
  (last.op = "erase_key" /\ ~Present(last.pre, comp, last.value)) =>
    /\ last.n = 0
    /\ storage = last.pre

SwapInit ==
  /\ comp \in Compares
  /\ other_comp \in Compares
  /\ \E lst \in Lists : storage \in sort_unique(lst, comp)
  /\ \E lst \in Lists : other_storage \in sort_unique(lst, other_comp)
  /\ last = Idle
  /\ BulkUnused
  /\ SemUnused

\* swap(other): storage.swap(other.storage)
Swap ==
  /\ last = Idle
  /\ storage' = other_storage
  /\ other_storage' = storage
  /\ UNCHANGED <<comp, other_comp, bulkVars, semVars>>
  /\ last' = [op |-> "swap", pre |-> storage, pre_comp |-> comp,
              other_pre |-> other_storage, other_pre_comp |-> other_comp]

SwapNext ==
  \/ Swap
  \/ Return

SwapSpec == SwapInit /\ [][SwapNext]_vars

\* binary-search lookups on st under c answer for the elements stored
LookupsCorrect(st, c) ==
  \A k \in Values :
    /\ count(st, c, k) = (IF Present(st, c, k) THEN 1 ELSE 0)
    /\ lower_bound(st, c, k) <= Len(st) <=> \E i \in 1..Len(st) : ~Compare(c, st[i], k)

(* C7: a.swap(b) exchanges the backing storage and the comparator of the   *)
(* two containers: afterwards a holds b's former sequence ordered by b's   *)
(* former comparator and b holds a's, so validate() and the binary-search  *)
(* lookups are correct on both, also when the comparators differ.  Stated  *)
(* by what a caller observes: each container holds the other's former     *)
(* sequence, and validate() and the lookups are right on both.             *)
C7_SwapExchangesComparator ==
  last.op = "swap" =>
    /\ storage = last.other_pre
    /\ other_storage = last.pre
    /\ validate(storage, comp)
    /\ validate(other_storage, other_comp)
    /\ LookupsCorrect(storage, comp)
    /\ LookupsCorrect(other_storage, other_comp)

(* ------------------------- bulk load against single inserts ----------- *)

\* longest list loaded in bulk and inserted one element at a time
MaxBulk == 3

BulkLists == SeqsUpTo(Values, MaxBulk)

\* the same list is to be bulk-inserted into the empty container `storage`
\* and inserted element by element, in any order, into the empty container
\* `other_storage`; todo holds the indices of the elements yet to be
\* inserted singly
BulkInit ==
  /\ comp \in Compares
  /\ other_comp = comp
  /\ storage = <<>>
  /\ other_storage = <<>>
  /\ input \in BulkLists
  /\ todo = 1..Len(input)
  /\ bulk_done = FALSE
  /\ last = Idle
  /\ SemUnused

\* storage.insert(input.begin(), input.end())
BulkLoad ==
  /\ ~bulk_done
  /\ storage' \in insert_range(storage, comp, input)
  /\ bulk_done' = TRUE
  /\ UNCHANGED <<comp, last, other_storage, other_comp, input, todo, semVars>>

\* other_storage.insert(input[i]) for an element not inserted yet
SingleInsert(i) ==
  /\ i \in todo
  /\ other_storage' = insert(other_storage, other_comp, input[i]).storage
  /\ todo' = todo \ {i}
  /\ UNCHANGED <<storage, comp, last, other_comp, input, bulk_done, semVars>>

BulkNext ==
  \/ BulkLoad
  \/ \E i \in 1..MaxBulk : SingleInsert(i)

BulkSpec == BulkInit /\ [][BulkNext]_vars

\* the two sequences hold the same keys of the comparator, position by position
SameKeys(a, b, c) ==
  /\ Len(a) = Len(b)
  /\ \A i \in 1..Len(a) : equivalent(c, a[i], b[i])

(* C10: for every list of keys, bulk insert(first, last) into an empty     *)
(* container yields the same sorted-unique set of keys as inserting the    *)
(* list's elements one at a time with insert(value), in every order.       *)
C10_BulkSameAsSingles ==
  (bulk_done /\ todo = {}) =>
    /\ SameKeys(storage, other_storage, comp)
    /\ validate(storage, comp)
    /\ validate(other_storage, comp)

\* both loads of an unsorted list with an equivalent pair have finished
C10_Witness ==
  /\ bulk_done
  /\ todo = {}
  /\ Len(input) = 3
  /\ Len(storage) = 2
  /\ Compare(comp, input[3], input[1])
  /\ equivalent(comp, input[1], input[2])
  /\ input[1] # input[2]

(* ------------------------- semaphore ---------------------------------- *)

\* threads that call the semaphore: 1..NumThreads
NumThreads == 3
\* a thread starts a post() only while the count is below MaxCount
MaxCount == 2
\* the constructor's initial_count is drawn from 0..MaxInitial
MaxInitial == 1

\* count and waiters are `unsigned`: an increment wraps only at 2^32, which no
\* run within the bounds reaches, and every decrement is guarded by > 0

Threads == 1..NumThreads

\* threads blocked in cv.wait(lock)
Blocked == {u \in Threads : pc[u] = "cv_wait"}

\* semaphore(initial_count): count(initial_count), waiters(0); the spinlock
\* s is free (0) and no thread is inside a call
SemInit ==
  /\ sem_count \in 0..MaxInitial
  /\ sem_waiters = 0
  /\ s = 0
  /\ pc = [t \in Threads |-> "idle"]
  /\ storage = <<>> /\ comp = "less" /\ last = Idle
  /\ other_storage = <<>> /\ other_comp = "less"
  /\ BulkUnused

\* thread t calls post(), post_all(), wait() or try_wait()
SemCall(t, op) ==
  /\ pc[t] = "idle"
  /\ op = "post" => sem_count < MaxCount
  /\ pc' = [pc EXCEPT ![t] = op]
  /\ UNCHANGED <<sem_count, sem_waiters, s>>
  /\ UNCHANGED <<vecVars, bulkVars>>

\* std::unique_lock / std::lock_guard constructor: lock the spinlock
SemLock(t, op) ==
  /\ pc[t] = op
  /\ s = 0
  /\ s' = t
  /\ pc' = [pc EXCEPT ![t] = op \o "_cs"]
  /\ UNCHANGED <<sem_count, sem_waiters>>
  /\ UNCHANGED <<vecVars, bulkVars>>

\* post(), under the lock: count++; if (waiters > 0) { waiters--; unlock }
\* (without waiters the lock is released by the destructor)
PostCS(t) ==
  /\ pc[t] = "post_cs"
  /\ sem_count' = sem_count + 1
  /\ IF sem_waiters > 0
     THEN /\ sem_waiters' = sem_waiters - 1
          /\ pc' = [pc EXCEPT ![t] = "post_notify"]
     ELSE /\ sem_waiters' = sem_waiters
          /\ pc' = [pc EXCEPT ![t] = "idle"]
  /\ s' = 0
  /\ UNCHANGED <<vecVars, bulkVars>>

\* post(), after the unlock: cv.notify_one()
PostNotify(t) ==
  /\ pc[t] = "post_notify"
  /\ IF Blocked = {}
     THEN pc' = [pc EXCEPT ![t] = "idle"]
     ELSE \E u \in Blocked : pc' = [pc EXCEPT ![t] = "idle", ![u] = "wait_relock"]
  /\ UNCHANGED <<sem_count, sem_waiters, s>>
  /\ UNCHANGED <<vecVars, bulkVars>>

\* post_all(), under the lock: count += waiters; waiters = 0; cv.notify_all()
PostAllCS(t) ==
  /\ pc[t] = "post_all_cs"
  /\ sem_count' = sem_count + sem_waiters
  /\ sem_waiters' = 0
  /\ pc' = [u \in Threads |->
              IF u = t THEN "idle"
              ELSE IF u \in Blocked THEN "wait_relock"
              ELSE pc[u]]
  /\ s' = 0
  /\ UNCHANGED <<vecVars, bulkVars>>

\* wait(), under the lock: if (count > 0) count--; else waiters++ and loop
WaitCS(t) ==
  /\ pc[t] = "wait_cs"
  /\ IF sem_count > 0
     THEN /\ sem_count' = sem_count - 1
          /\ s' = 0
          /\ pc' = [pc EXCEPT ![t] = "wait_done"]
          /\ UNCHANGED sem_waiters
     ELSE /\ sem_waiters' = sem_waiters + 1
          /\ pc' = [pc EXCEPT ![t] = "wait_loop"]
          /\ UNCHANGED <<sem_count, s>>
  /\ UNCHANGED <<vecVars, bulkVars>>

\* wait(): while (count == 0) cv.wait(lock); count--;
\* cv.wait releases the lock and blocks the thread in one step
WaitLoop(t) ==
  /\ pc[t] = "wait_loop"
  /\ IF sem_count = 0
     THEN /\ pc' = [pc EXCEPT ![t] = "cv_wait"]
          /\ UNCHANGED sem_count
     ELSE /\ sem_count' = sem_count - 1
          /\ pc' = [pc EXCEPT ![t] = "wait_done"]
  /\ s' = 0
  /\ UNCHANGED sem_waiters
  /\ UNCHANGED <<vecVars, bulkVars>>

\* a condition variable may wake a blocked thread without a notification
SpuriousWake(t) ==
  /\ pc[t] = "cv_wait"
  /\ pc' = [pc EXCEPT ![t] = "wait_relock"]
  /\ UNCHANGED <<sem_count, sem_waiters, s>>
  /\ UNCHANGED <<vecVars, bulkVars>>

\* a woken thread that takes a unit without testing the count again
WaitRelock_notest(t) ==
  /\ pc[t] = "wait_relock"
  /\ s = 0
  /\ sem_count' = sem_count - 1
  /\ pc' = [pc EXCEPT ![t] = "wait_done"]
  /\ UNCHANGED <<sem_waiters, s>>
  /\ UNCHANGED <<vecVars, bulkVars>>

\* cv.wait(lock), woken: lock again before it returns into the loop
WaitRelock(t) ==
  /\ pc[t] = "wait_relock"
  /\ s = 0
  /\ s' = t
  /\ pc' = [pc EXCEPT ![t] = "wait_loop"]
  /\ UNCHANGED <<sem_count, sem_waiters>>
  /\ UNCHANGED <<vecVars, bulkVars>>

\* try_wait that reports a positive count without taking the unit
TryWaitCS_notake(t) ==
  /\ pc[t] = "try_wait_cs"
  /\ pc' = [pc EXCEPT ![t] = IF sem_count > 0 THEN "try_wait_true"
                                              ELSE "try_wait_false"]
  /\ s' = 0
  /\ UNCHANGED <<sem_count, sem_waiters>>
  /\ UNCHANGED <<vecVars, bulkVars>>

\* try_wait(), under the lock: the thread leaves with the value it returns
TryWaitCS(t) ==
  /\ pc[t] = "try_wait_cs"
  /\ IF sem_count > 0
     THEN /\ sem_count' = sem_count - 1
          /\ pc' = [pc EXCEPT ![t] = "try_wait_true"]
     ELSE /\ sem_count' = sem_count
          /\ pc' = [pc EXCEPT ![t] = "try_wait_false"]
  /\ s' = 0
  /\ UNCHANGED sem_waiters
  /\ UNCHANGED <<vecVars, bulkVars>>

\* the states in which wait() or try_wait() has returned to its caller
Returned == {"wait_done", "try_wait_true", "try_wait_false"}

\* the caller takes the result and is free to make its next call
SemReturn(t) ==
  /\ pc[t] \in Returned
  /\ pc' = [pc EXCEPT ![t] = "idle"]
  /\ UNCHANGED <<sem_count, sem_waiters, s>>
  /\ UNCHANGED <<vecVars, bulkVars>>

SemOps == {"post", "post_all", "wait", "try_wait"}

SemNext ==
  \/ \E t \in Threads, op \in SemOps : SemCall(t, op)
  \/ \E t \in Threads, op \in SemOps : SemLock(t, op)
  \/ \E t \in Threads : PostCS(t)
  \/ \E t \in Threads : PostNotify(t)
  \/ \E t \in Threads : PostAllCS(t)
  \/ \E t \in Threads : WaitCS(t)
  \/ \E t \in Threads : WaitLoop(t)
  \/ \E t \in Threads : SpuriousWake(t)
  \/ \E t \in Threads : WaitRelock(t)
  \/ \E t \in Threads : TryWaitCS(t)
  \/ \E t \in Threads : SemReturn(t)

SemSpec == SemInit /\ [][SemNext]_vars

\* posts that have released the lock and have yet to call notify_one
PendingNotify == {u \in Threads : pc[u] = "post_notify"}

(* C8: in every interleaving a call to post() increments the count by      *)
(* exactly one and, if at least one thread is blocked inside wait(),       *)
(* notifies one blocked thread.  Read in post()'s favour: a blocked thread *)
(* that another post() is about to notify is not owed a second             *)
(* notification.                                                           *)
C8_PostWakesOne ==
  [][\A t \in Threads :
       /\ (pc[t] = "post_cs" /\ pc'[t] # "post_cs") =>
            /\ sem_count' = sem_count + 1
            /\ Cardinality(Blocked) > Cardinality(PendingNotify) =>
                 pc'[t] = "post_notify"
       /\ (pc[t] = "post_notify" /\ pc'[t] # "post_notify" /\ Blocked # {}) =>
            \E u \in Blocked : pc'[u] = "wait_relock"]_vars

(* C9: post_all() wakes all current waiters: if n threads are blocked      *)
(* inside wait() when post_all() runs, the count is raised by n and all n  *)
(* are notified, so that each of them can return from wait().  Read in     *)
(* post_all()'s favour: the count it leaves covers the n blocked threads.  *)
C9_PostAllWakesAll ==
  [][\A t \in Threads :
       (pc[t] = "post_all_cs" /\ pc'[t] # "post_all_cs") =>
         /\ \A u \in Blocked : pc'[u] = "wait_relock"
         /\ sem_count' >= Cardinality(Blocked)]_vars

(* ---------------- claims on construction and lookups ------------------ *)

\* the elements of a sequence
Elements(q) == {q[i] : i \in 1..Len(q)}

\* the input [5, 1, 3, 1, 5, 2]; equal keys are told apart by their tags
ExampleInput ==
  << <<5, "a">>, <<1, "a">>, <<3, "a">>, <<1, "b">>, <<5, "b">>, <<2, "a">> >>

\* what constructing from ExampleInput under "less" can leave
ExampleOutcomes == sort_unique(ExampleInput, "less")

\* the keys of a sequence of elements
KeysOf(q) == [i \in 1..Len(q) |-> q[i][1]]

(* C11: constructing from a range or an initializer list, and assigning    *)
(* from an initializer list, leave a storage that is sorted under the      *)
(* comparator, holds no two equivalent elements, holds only elements of    *)
(* the input, and holds an element equivalent to every input element:      *)
(* exactly one representative of each equivalence class of the input.      *)
(* The input [5, 1, 3, 1, 5, 2] is normalised to [1, 2, 3, 5].             *)
C11_NormalizedInput ==
  /\ last.op \in {"ctor", "assign"} =>
       /\ is_sorted(storage, comp)
       /\ \A i \in 1..Len(storage), j \in 1..Len(storage) :
            i # j => ~equivalent(comp, storage[i], storage[j])
       /\ Elements(storage) \subseteq Elements(last.lst)
       /\ \A x \in Elements(last.lst) : Present(storage, comp, x)
  /\ \A p \in ExampleOutcomes : KeysOf(p) = <<1, 2, 3, 5>>

\* a non-empty container was assigned a list that was out of order
C11_Witness ==
  /\ last.op = "assign"
  /\ last.pre # <<>>
  /\ Len(last.lst) = 2
  /\ Compare(comp, last.lst[2], last.lst[1])
  /\ Len(storage) = 2

Takes(t) ==
  /\ pc[t] # pc'[t]
  /\ pc'[t] \in {"wait_done", "try_wait_true"}

\* thread t makes the step of post() or post_all() that sets the count
Adds(t) ==
  /\ pc[t] \in {"post_cs", "post_all_cs"}
  /\ pc[t] # pc'[t]

(* C13: wait() returns only in a step in which the returning thread itself *)
(* decrements a count that is positive at that moment; the count never     *)
(* drops below zero; and units are conserved: the count falls only by one  *)
(* and only in the step that completes one wait() or successful            *)
(* try_wait(), each such step takes one unit, and the count rises only in  *)
(* post() and post_all().  Hence the completed calls never exceed the      *)
(* initial count plus the units post and post_all added.                   *)
C13_WaitTakesPositiveCount ==
  [][/\ sem_count' >= 0
     /\ \A t \in Threads :
          Takes(t) => /\ sem_count > 0
                      /\ sem_count' = sem_count - 1
                      /\ s = t
                      /\ \A u \in Threads \ {t} : ~Takes(u)
     /\ sem_count' < sem_count => \E t \in Threads : Takes(t)
     /\ sem_count' > sem_count => \E t \in Threads : Adds(t)]_vars

\* a wait() has returned with the last unit while another thread stays
\* blocked on the condition variable
C13_Witness ==
  /\ sem_count = 0
  /\ \E t \in Threads : pc[t] = "wait_done"
  /\ Blocked # {}

(* C14: try_wait() never waits on the condition variable.  Holding the     *)
(* lock, it returns true exactly when the count is positive, and then has  *)
(* decremented the count by one; otherwise it returns false and leaves     *)
(* count and waiters as they were.                                         *)
C14_TryWaitNeverBlocks ==
  [][\A t \in Threads :
       /\ pc[t] \in {"try_wait", "try_wait_cs"} =>
            pc'[t] \in {"try_wait", "try_wait_cs", "try_wait_true",
                        "try_wait_false"}
       /\ (pc[t] = "try_wait_cs" /\ pc'[t] # "try_wait_cs") =>
            /\ s = t
            /\ pc'[t] = "try_wait_true" <=> sem_count > 0
            /\ pc'[t] = "try_wait_true" => sem_count' = sem_count - 1
            /\ pc'[t] = "try_wait_false" =>
                 /\ sem_count' = sem_count
                 /\ sem_waiters' = sem_waiters]_vars

\* one try_wait() has returned true and another false, while a third
\* thread is blocked in wait()
C14_Witness ==
  /\ \E t \in Threads : pc[t] = "try_wait_true"
  /\ \E t \in Threads : pc[t] = "try_wait_false"
  /\ Blocked # {}

(* ---------------- claims on the empty container, insert, emplace ------ *)

(* C15: on an empty container, for every key k, find(k), lower_bound(k)    *)
(* and upper_bound(k) all return end(), which equals begin(); count(k) is  *)
(* 0; erase(k) returns 0 and leaves the container empty.  No lookup reads  *)
(* an element: reading storage[i] of an empty storage has no value.        *)
C15_EmptyContainer ==
  /\ storage = <<>> =>
       \A k \in Values :
         /\ end(storage) = 1
         /\ find(storage, comp, k) = end(storage)
         /\ lower_bound(storage, comp, k) = end(storage)
         /\ upper_bound(storage, comp, k) = end(storage)
         /\ equal_range(storage, comp, k) = <<end(storage), end(storage)>>
         /\ count(storage, comp, k) = 0
         /\ erase_key(storage, comp, k) = [storage |-> <<>>, n |-> 0]
  /\ (last.op = "erase_key" /\ last.pre = <<>>) =>
       /\ last.n = 0
       /\ storage = <<>>

\* erase(key) was called on an empty container
C15_Witness ==
  /\ last.op = "erase_key"
  /\ last.pre = <<>>

(* ---------------- claim on lost wakeups ------------------------------- *)

\* thread u is outside every call, has returned from one, or is itself
\* blocked: it will neither notify nor take a unit unless it makes a new call
Quiet(u) == pc[u] \in {"idle", "cv_wait"} \cup Returned

(* C16: no lost wakeup.  A thread blocked inside wait() does not stay      *)
(* blocked while the count is positive and no other thread consumes it:    *)
(* whenever a thread is blocked on the condition variable and the count is *)
(* positive, some other thread is still inside a call that will notify it  *)
(* or take the unit.  A state in which the count is positive, a thread is  *)
(* blocked and every other thread is quiet is one the blocked thread never *)
(* leaves under fair scheduling, unless a spurious wakeup or a further     *)
(* call comes to its help.                                                 *)
C16_NoLostWakeup ==
  \A t \in Blocked :
    sem_count > 0 => \E u \in Threads \ {t} : ~Quiet(u)

(* ---------------- claims on insert, emplace and hints ----------------- *)

(* C17: when no stored element is equivalent to value, insert(value)       *)
(* reports success, the size grows by exactly one, the returned position   *)
(* is the position lower_bound(value) had before the call and holds value, *)
(* and the elements stored before are all still there in the same order.   *)
C17_InsertAbsent ==
  (last.op = "insert" /\ ~Present(last.pre, comp, last.value)) =>
    /\ last.second
    /\ Len(storage) = Len(last.pre) + 1
    /\ last.pos = lower_bound(last.pre, comp, last.value)
    /\ storage[last.pos] = last.value
    /\ VecErase(storage, last.pos, last.pos + 1) = last.pre

\* a new value was inserted between two stored elements
C17_Witness ==
  /\ last.op = "insert"
  /\ ~Present(last.pre, comp, last.value)
  /\ Len(last.pre) = 2
  /\ last.pos = 2

(* C18: for every container state and every argument list, emplace(args)  *)
(* and emplace_hint(hint, args) with any hint leave the same element       *)
(* sequence as insert(value_type(args)), and emplace reports the same      *)
(* inserted / not inserted flag.                                           *)
C18_EmplaceSameAsInsert ==
  last.op \in {"emplace", "emplace_hint"} =>
    LET r == insert(last.pre, comp, last.value)
    IN  /\ storage = r.storage
        /\ last.op = "emplace" => last.second = r.second

\* lst[j] is the first element of its equivalence class in lst
FirstOfClass(lst, c, j) == \A i \in 1..(j - 1) : ~equivalent(c, lst[i], lst[j])

C20_GoodHintIsLowerBound ==
  /\ validate(storage, comp) =>
       \A hint \in 1..end(storage), value \in Values :
         good_hint(storage, comp, hint, value) =>
           /\ ~Present(storage, comp, value)
           /\ hint = lower_bound(storage, comp, value)
           /\ validate(VecInsert(storage, hint, value), comp)
  /\ (/\ last.op = "insert_hint"
      /\ validate(last.pre, comp)
      /\ good_hint(last.pre, comp, last.hint, last.value)) =>
       /\ storage = VecInsert(last.pre, last.hint, last.value)
       /\ validate(storage, comp)

\* insert(hint, value) took the direct path between two stored elements
C20_Witness ==
  /\ last.op = "insert_hint"
  /\ good_hint(last.pre, comp, last.hint, last.value)
  /\ Len(last.pre) = 2
  /\ last.hint = 2

============================================================================
